---------------------------- MODULE Spec2Model ----------------------------
(***************************************************************************)
(* Model of ruuvi_particle: the Ruuvi manufacturer-data decoder            *)
(* (src/ruuvi_to_particle.py, parse_ruuvi_manufacturer_data), the scan     *)
(* batch loop (scan_and_publish) and the Particle cloud client             *)
(* (src/pyparticle/__init__.py, Particle.api / publish_event).             *)
(*                                                                         *)
(* Numbers.  The decoder works on Python floats raw / scale with scale in  *)
(* {1, 10, 100, 200, 1000}.  Every such quotient is an exact multiple of   *)
(* 1/1000, so an unrounded value is held as an integer number of           *)
(* thousandths ("milli") and a value rounded by round(x, 2) as an integer  *)
(* number of hundredths ("centi").  round() acts on the IEEE double        *)
(* nearest to raw / scale, so a decimal tie x.xx5 is resolved by the side  *)
(* on which that double lies (FloatDir), as CPython does.                  *)
(*                                                                         *)
(* Optional values (Python None) are sequences of length 0 or 1.           *)
(***************************************************************************)
EXTENDS Integers, Sequences, FiniteSets, TLC

VARIABLES
    data,            \* decoder: the bytes handed to parse_ruuvi_manufacturer_data
    parsed,          \* decoder: what the call returned / touched / raised
    dpc,             \* decoder: "input" before the call, "parsed" after it
    request,         \* client: the arguments of publish_event
    sent,            \* client: the form data posted (None before the POST)
    response,        \* client: the HTTP exchange's result (None before it)
    outcome,         \* client: what publish_event returned or raised
    ppc,             \* client: "call", "posted", "done"
    TARGET_MAC,      \* scan: os.environ.get('RUUVI_MAC') (None when unset)
    devices_raw,     \* scan: what BleakScanner.discover returned
    pos,             \* scan: 1-based position of the for loop in devices_raw
    found,           \* scan: the counter of line 157
    log,             \* scan: per item handled, what the loop body did with it
    pc               \* scan: "scan", "loop", "done" ("crashed": an exception left)

decoderVars == <<data, parsed, dpc>>
clientVars == <<request, sent, response, outcome, ppc>>
scanVars == <<TARGET_MAC, devices_raw, pos, found, log, pc>>
vars == <<decoderVars, clientVars, scanVars>>

None == <<>>
Some(x) == <<x>>
IsNone(o) == Len(o) = 0
Val(o) == o[1]

\* parse_ruuvi_manufacturer_data has not been called.
NotParsed == [reading |-> None, reads |-> {}, raised |-> FALSE]

\* publish_event has neither returned nor raised.
NoOutcome == [kind |-> "none", message |-> "", value |-> None]

\* The parts of the program a specification does not exercise stay as they
\* are before their first use.
DecoderIdle ==
    /\ data = <<>>
    /\ parsed = NotParsed
    /\ dpc = "idle"

ClientIdle ==
    /\ request = [event_name |-> "", data |-> "", is_private |-> FALSE]
    /\ sent = None
    /\ response = None
    /\ outcome = NoOutcome
    /\ ppc = "idle"

ScanIdle ==
    /\ TARGET_MAC = None
    /\ devices_raw = <<>>
    /\ pos = 0
    /\ found = 0
    /\ log = <<>>
    /\ pc = "idle"

Min(a, b) == IF a < b THEN a ELSE b
Abs(n) == IF n < 0 THEN -n ELSE n

-----------------------------------------------------------------------------
(* Python byte strings: 0-based indexing and clamping slices.              *)

\* s[i] is defined only for i < len(s); otherwise Python raises IndexError.
InBounds(s, i) == i >= 0 /\ i < Len(s)
At(s, i) == s[i + 1]
\* s[a:b] for 0 <= a <= b: the slice is clamped to the sequence, never raises.
Slice(s, a, b) == SubSeq(s, a + 1, Min(b, Len(s)))
\* s[a:]
SliceFrom(s, a) == SubSeq(s, a + 1, Len(s))
\* The indices of s that s[a:b] actually reads.
SliceReads(s, a, b) == {i \in a..(b - 1) : i < Len(s)}

\* binascii.hexlify(data).decode(): two hex digits per byte, high nibble first.
Hexlify(bs) == [k \in 1..(2 * Len(bs)) |->
                  IF k % 2 = 1 THEN bs[(k + 1) \div 2] \div 16
                               ELSE bs[k \div 2] % 16]

\* The hex digits of the string '9904'.
CompanyIdHex == <<9, 9, 0, 4>>

\* str.find: the lowest 0-based index at which needle occurs in hay, or -1.
Find(hay, needle) ==
    LET hits == {i \in 0..(Len(hay) - Len(needle)) :
                    \A j \in 1..Len(needle) : hay[i + j] = needle[j]}
    IN IF hits = {} THEN -1 ELSE CHOOSE i \in hits : \A k \in hits : i <= k

\* Lines 83-91: the payload is what follows the first '9904' of the hex text
\* (the hex index halved, plus two bytes), or the whole buffer without one.
StripCompanyId(bs) ==
    LET hexs == Hexlify(bs)
        idx == Find(hexs, CompanyIdHex)
    IN IF idx >= 0 THEN SliceFrom(bs, (idx \div 2) + 2) ELSE bs

-----------------------------------------------------------------------------
(* struct.unpack of a 2-byte field.                                        *)

\* struct.unpack raises struct.error unless the buffer holds exactly 2 bytes.
UnpackOk(bs) == Len(bs) = 2

\* struct.unpack(endian + 'H', bs)[0]
UnpackH(endian, bs) ==
    IF endian = ">" THEN bs[1] * 256 + bs[2] ELSE bs[2] * 256 + bs[1]

\* struct.unpack(endian + 'h', bs)[0]: two's complement, 16 bits.
Unpackh(endian, bs) ==
    LET u == UnpackH(endian, bs) IN IF u >= 32768 THEN u - 65536 ELSE u

-----------------------------------------------------------------------------
(* Python float division and round(x, 2).                                  *)

\* raw / scale in thousandths (exact for the decoder's scales).
Milli(raw, scale) == raw * (1000 \div scale)

RECURSIVE PowMod(_, _, _)
PowMod(b, e, m) == IF e = 0 THEN 1 % m ELSE (b * PowMod(b, e - 1, m)) % m

RECURSIVE Pow2(_)
Pow2(k) == IF k = 0 THEN 1 ELSE 2 * Pow2(k - 1)

\* The k with 2^k <= n/d < 2^(k+1), for n, d > 0: the binary exponent of n/d.
Log2Floor(n, d) ==
    IF n >= d
    THEN CHOOSE k \in 0..16 : d * Pow2(k) <= n /\ n < d * Pow2(k + 1)
    ELSE -(CHOOSE j \in 1..10 : n * Pow2(j) >= d /\ n * Pow2(j - 1) < d)

\* The side of n/d (n >= 0, d > 0) on which the double nearest to it lies:
\* -1 below, 0 exact, 1 above.  The double is m * 2^-e with a 53-bit m, that is
\* m = n * 2^e / d rounded to nearest; rem is what the division leaves over.
\* (2 * rem = d cannot occur: 2^e * n mod d is even and d / 2 is odd or is
\* not a multiple of the power of two dividing d.)
FloatDir(n, d) ==
    IF n = 0 THEN 0
    ELSE LET e == 52 - Log2Floor(n, d)
             rem == ((n % d) * PowMod(2, e, d)) % d
         IN IF rem = 0 THEN 0 ELSE IF 2 * rem < d THEN -1 ELSE 1

\* round(n / d, 2) in hundredths, n >= 0: nearest hundredth of the double; an
\* exact decimal tie goes to the even hundredth.
Round2Abs(n, d) ==
    LET m == Milli(n, d)
        q == m \div 10
        r == m % 10
    IN IF r < 5 THEN q
       ELSE IF r > 5 THEN q + 1
       ELSE LET fd == FloatDir(n, d)
            IN IF fd > 0 THEN q + 1
               ELSE IF fd < 0 THEN q
               ELSE IF q % 2 = 0 THEN q ELSE q + 1

\* round(raw / scale, 2) in hundredths.
Round2(raw, scale) ==
    IF raw >= 0 THEN Round2Abs(raw, scale) ELSE -Round2Abs(-raw, scale)

-----------------------------------------------------------------------------
(* parse_ruuvi_manufacturer_data (src/ruuvi_to_particle.py, lines 67-140). *)

\* Line 72: shorter buffers are refused outright.
MinDataLen == 3
\* Line 99: the trial decoding needs a payload of at least this many bytes.
MinPayloadLen == 8

\* A length check that covers only the 6-byte window.
LongEnoughWindow(payload) == Len(payload) >= 6

\* Line 99.
LongEnough(payload) == Len(payload) >= MinPayloadLen

\* No gate on the format byte at all.
FmtAcceptedAny(fmt) == TRUE

\* Line 101: the format bytes that are decoded at all.
RuuviFormats == {2, 3, 4, 5, 6, 8}
\* Line 101.
FmtAccepted(fmt) == fmt \in RuuviFormats

\* Lines 109, 114, 122: the loop headers, in their iteration order.
Endians == <<">", "<">>
\* The temperature scales without the /1000 hypothesis.
TScalesWithoutMilli == <<100, 200>>
TScales == <<100, 200, 1000>>
PScales == <<10, 1>>

\* The (endian, t_scale, p_scale) triples in the order in which the three
\* nested loops of lines 109-122 reach line 125: endian outermost, p_scale
\* innermost.
Hypotheses ==
    [k \in 1..(Len(Endians) * Len(TScales) * Len(PScales)) |->
        [endian  |-> Endians[((k - 1) \div (Len(TScales) * Len(PScales))) + 1],
         t_scale |-> TScales[(((k - 1) \div Len(PScales)) % Len(TScales)) + 1],
         p_scale |-> PScales[((k - 1) % Len(PScales)) + 1]]]

\* The range check without the upper limit on humidity.
PlausibleNoHumidityLimit(temperature, humidity, pressure) ==
    /\ -40000 <= temperature /\ temperature <= 85000
    /\ 0 <= humidity
    /\ 300000 <= pressure /\ pressure <= 1200000

\* Line 125, on thousandths.  Comparing the doubles agrees with comparing the
\* exact quotients: float division is monotone and the limits are multiples
\* of 1/1000 that are exact quotients themselves.
Plausible(temperature, humidity, pressure) ==
    /\ -40000 <= temperature /\ temperature <= 85000
    /\ 0 <= humidity /\ humidity <= 100000
    /\ 300000 <= pressure /\ pressure <= 1200000

\* Lines 104-106.
TBytes(payload) == Slice(payload, 1, 3)
HByte(payload) == At(payload, 3)
PBytes(payload) == Slice(payload, 4, 6)

\* Lines 111-126 for one hypothesis: the raw fields it unpacks.
Trial(payload, hyp) ==
    [t_raw   |-> Unpackh(hyp.endian, TBytes(payload)),
     h_byte  |-> HByte(payload),
     p_raw   |-> UnpackH(hyp.endian, PBytes(payload)),
     endian  |-> hyp.endian,
     t_scale |-> hyp.t_scale,
     p_scale |-> hyp.p_scale]

\* Line 125 for one hypothesis; a struct.error (lines 112, 120) skips it.
Accepts(payload, hyp) ==
    /\ UnpackOk(TBytes(payload))
    /\ UnpackOk(PBytes(payload))
    /\ LET c == Trial(payload, hyp)
       IN Plausible(Milli(c.t_raw, c.t_scale), Milli(c.h_byte, 1),
                    Milli(c.p_raw, c.p_scale))

\* Lines 108-126: the list `candidates`, in append order.
Candidates(payload) ==
    LET Test(hyp) == Accepts(payload, hyp)
        hyps == SelectSeq(Hypotheses, Test)
    IN [k \in 1..Len(hyps) |-> Trial(payload, hyps[k])]

\* candidates[-1] in place of candidates[0].
LastCandidate(cands) == cands[Len(cands)]

\* Line 130: candidates[0].
FirstCandidate(cands) == cands[1]

\* Lines 131-136: the returned dict, values in hundredths.
Reading(fmt, c) ==
    [format      |-> fmt,
     temperature |-> Round2(c.t_raw, c.t_scale),
     humidity    |-> Round2(c.h_byte, 1),
     pressure    |-> Round2(c.p_raw, c.p_scale)]

\* Lines 102-138: the body of the try.  payload[3] on a payload of fewer than 4
\* bytes raises IndexError, which line 137 turns into None.
TrialDecode(payload) ==
    IF ~InBounds(payload, 3) THEN None
    ELSE LET cands == Candidates(payload)
         IN IF Len(cands) > 0
            THEN Some(Reading(At(payload, 0), FirstCandidate(cands)))
            ELSE None

\* Line 100 is outside the try: payload[0] on an empty payload would escape.
ParseRaises(bs) ==
    /\ Len(bs) >= MinDataLen
    /\ LongEnough(StripCompanyId(bs))
    /\ ~InBounds(StripCompanyId(bs), 0)

\* The value parse_ruuvi_manufacturer_data returns (None when it raises).
parse_ruuvi_manufacturer_data(bs) ==
    IF Len(bs) < MinDataLen THEN None
    ELSE LET payload == StripCompanyId(bs)
         IN IF LongEnough(payload) /\ InBounds(payload, 0)
                /\ FmtAccepted(At(payload, 0))
            THEN TrialDecode(payload)
            ELSE None

\* The 0-based payload indices the call reads or tries to read: payload[0]
\* (line 100), then for an accepted format payload[1:3], payload[3] and
\* payload[4:6] (lines 104-106).  A slice reads only what exists; an index
\* expression is attempted as written.
PayloadReads(bs) ==
    IF Len(bs) < MinDataLen THEN {}
    ELSE LET payload == StripCompanyId(bs)
         IN IF ~LongEnough(payload) THEN {}
            ELSE IF ~InBounds(payload, 0) THEN {0}
            ELSE IF ~FmtAccepted(At(payload, 0)) THEN {0}
            ELSE {0} \cup SliceReads(payload, 1, 3) \cup {3}
                     \cup (IF InBounds(payload, 3)
                           THEN SliceReads(payload, 4, 6) ELSE {})

-----------------------------------------------------------------------------
(* Particle.api and Particle.publish_event (src/pyparticle/__init__.py).   *)

\* Line 13.
INVALID_DETAILS_MESSAGE == "User credentials are invalid"

\* Line 66: the only status that is not treated as an error.
HTTP_OK == 200

\* Line 47 of ruuvi_to_particle.py (the token itself is immaterial).
PARTICLE_TOKEN == "token"
\* Line 56 of ruuvi_to_particle.py.
PUBLISH_EVENT_NAME == "ruuvi_data"

\* Lines 135-146: the form data publish_event posts.  `data` is sent only
\* when it is not the empty string.
EventParams(event_name, d, is_private) ==
    [name         |-> event_name,
     access_token |-> PARTICLE_TOKEN,
     data         |-> IF d # "" THEN Some(d) ELSE None,
     private      |-> IF is_private THEN "true" ELSE "false"]

\* What one HTTP exchange can come to.  transport = "error": requests.post
\* raises (no response).  json = FALSE: the body is not JSON and json.loads
\* raises (line 64).  Otherwise the body is a JSON object; each of its three
\* keys the client looks at is absent (None) or present with a value.
TransportError ==
    [transport |-> "error", json |-> FALSE, status_code |-> 0,
     ok |-> None, error_description |-> None, error |-> None]

Responses ==
    {TransportError}
    \cup [transport : {"ok"}, json : {FALSE}, status_code : {HTTP_OK, 500},
          ok : {None}, error_description : {None}, error : {None}]
    \cup [transport : {"ok"}, json : {TRUE},
          status_code : {HTTP_OK, 400, 401, 500},
          ok : {None, Some(TRUE), Some(FALSE)},
          error_description :
              {None, Some(INVALID_DETAILS_MESSAGE), Some("The access token provided is invalid.")},
          error : {None, Some("invalid_token")}]

\* The body as the caller gets it back (line 79).
BodyOf(resp) ==
    [ok |-> resp.ok, error_description |-> resp.error_description,
     error |-> resp.error]

Returns(body) == [kind |-> "return", message |-> "", value |-> Some(body)]
Raises(kind, message) == [kind |-> kind, message |-> message, value |-> None]

\* Every error_description taken for the invalid-credentials message.
AnyDescription(message) == TRUE

\* Line 68.
IsInvalidDetails(message) == message = INVALID_DETAILS_MESSAGE

\* Lines 57-79 for a POST: requests.post, json.loads, then the status check.
\* A transport error (a requests exception) and a body that does not parse
\* (ValueError) leave as ordinary exceptions.
api(resp) ==
    IF resp.transport = "error" THEN Raises("Exception", "transport")
    ELSE IF ~resp.json THEN Raises("Exception", "json")
    ELSE IF resp.status_code # HTTP_OK
    THEN IF ~IsNone(resp.error_description)
         THEN IF IsInvalidDetails(Val(resp.error_description))
              THEN Raises("LoginError", INVALID_DETAILS_MESSAGE)
              ELSE Raises("Exception", Val(resp.error_description))
         ELSE IF ~IsNone(resp.error)
         THEN Raises("Exception", Val(resp.error))
         ELSE Raises("Exception", "API Error")
    ELSE Returns(BodyOf(resp))

\* Lines 148-153: publish_event re-raises what api raises and returns what
\* it returns.
publish_event(resp) == api(resp)

\* Lines 155-158: LoginError derives from Exception, as the exceptions of
\* requests and json do.
IsException(kind) == kind \in {"LoginError", "Exception"}

\* The arguments publish_event is called with: the data string of line 233
\* of ruuvi_to_particle.py or the empty default, and is_private.
DataStrings == {"", "mac=AA:BB,temp=22.0,humidity=45.0,pressure=1000.0"}
Requests == [event_name : {PUBLISH_EVENT_NAME, "sensor_data"},
             data : DataStrings, is_private : BOOLEAN]

PublishInit ==
    /\ request \in Requests
    /\ sent = None
    /\ response = None
    /\ outcome = NoOutcome
    /\ ppc = "call"
    /\ DecoderIdle
    /\ ScanIdle

\* publish_event up to the POST (lines 133-149, 57-62).
Post ==
    /\ ppc = "call"
    /\ sent' = Some(EventParams(request.event_name, request.data,
                                request.is_private))
    /\ ppc' = "posted"
    /\ UNCHANGED <<request, response, outcome, decoderVars, scanVars>>

\* The exchange ends and publish_event returns or raises (lines 64-79, 153).
Respond ==
    /\ ppc = "posted"
    /\ \E resp \in Responses :
          /\ response' = Some(resp)
          /\ outcome' = publish_event(resp)
    /\ ppc' = "done"
    /\ UNCHANGED <<request, sent, decoderVars, scanVars>>

PublishNext == Post \/ Respond

SpecPublish == PublishInit /\ [][PublishNext]_vars

-----------------------------------------------------------------------------
(* Decoder inputs.                                                         *)

\* Longest payload body drawn (the RAWv2 layout of the specification is 24).
MaxLen == 24

FmtSamples == {2, 3, 5, 9}
\* bytes[1:3]: 500, 2200, 0x3214, 8500, 8501, 20005, -4000, -4001, 0x0101,
\* 0x0990 (2448)
TFieldSamples == {<<1, 244>>, <<8, 152>>, <<50, 20>>, <<33, 52>>, <<33, 53>>,
                  <<78, 37>>, <<240, 96>>, <<240, 95>>, <<1, 1>>, <<9, 144>>}
\* byte[3]; 64 is 0x40, so that 0x0990 followed by it spells '099040' in hex
HSamples == {0, 45, 50, 64, 100, 101}
\* bytes[4:6]: 10000, 50000, 0x64C3, 1028, 300, 299, 12000, 12001, 1200,
\* 1201, 2999, 3000
PFieldSamples == {<<39, 16>>, <<195, 80>>, <<100, 195>>, <<4, 4>>, <<1, 44>>,
                  <<1, 43>>, <<46, 224>>, <<46, 225>>, <<4, 176>>,
                  <<4, 177>>, <<11, 183>>, <<11, 184>>}
\* byte[6]
B6Samples == {0, 80}
LenSamples == {2, 5, 7, 8, 14, MaxLen}
\* What precedes the payload: nothing, the company id 0x99 0x04, the
\* company id after one more byte, or the company id after the three bytes
\* 0x09 0x90 0x40.
PrefixSamples == {<<>>, <<153, 4>>, <<255, 153, 4>>, <<9, 144, 64, 153, 4>>}

Zeros(n) == [k \in 1..n |-> 0]

Body(fmt, t, h, p, b6, len) ==
    SubSeq(<<fmt, t[1], t[2], h, p[1], p[2], b6>> \o Zeros(MaxLen), 1, len)

DataSamples ==
    {pre \o Body(fmt, t, h, p, b6, len) :
        pre \in PrefixSamples, fmt \in FmtSamples, t \in TFieldSamples,
        h \in HSamples, p \in PFieldSamples, b6 \in B6Samples,
        len \in LenSamples}

DecodeInit ==
    /\ data \in DataSamples
    /\ parsed = NotParsed
    /\ dpc = "input"
    /\ ClientIdle
    /\ ScanIdle

\* One call of parse_ruuvi_manufacturer_data(data).
Parse ==
    /\ dpc = "input"
    /\ parsed' = [reading |-> parse_ruuvi_manufacturer_data(data),
                  reads   |-> PayloadReads(data),
                  raised  |-> ParseRaises(data)]
    /\ dpc' = "parsed"
    /\ UNCHANGED <<data, clientVars, scanVars>>

DecodeNext == Parse

SpecDecode == DecodeInit /\ [][DecodeNext]_vars

\* The payload the decoder works on, once the call has been made.
decoderPayload == StripCompanyId(data)

-----------------------------------------------------------------------------
(* scan_and_publish (src/ruuvi_to_particle.py, lines 143-240) and the      *)
(* module-level configuration (lines 45-61).                               *)
(* A string is a sequence of one-character strings.                        *)

UpperLetters == <<"A", "B", "C", "D", "E", "F">>
LowerLetters == <<"a", "b", "c", "d", "e", "f">>
DigitChars == {"0", "1", "2", "3", "4", "5", "6", "7", "8", "9"}

\* str.isalnum on one character.
IsAlnum(c) ==
    \/ c \in DigitChars
    \/ \E k \in 1..Len(UpperLetters) : c = UpperLetters[k] \/ c = LowerLetters[k]

\* str.lower on one character.
Lower(c) ==
    IF \E k \in 1..Len(UpperLetters) : c = UpperLetters[k]
    THEN LowerLetters[CHOOSE k \in 1..Len(UpperLetters) : c = UpperLetters[k]]
    ELSE c

\* ''.join(c for c in mac if c.isalnum()).lower()  (lines 53, 182)
NormalizeMac(mac) ==
    LET kept == SelectSeq(mac, IsAlnum)
    IN [k \in 1..Len(kept) |-> Lower(kept[k])]

\* Python truth of an optional string: neither None nor ''.
Truthy(o) == ~IsNone(o) /\ Len(Val(o)) > 0

\* Lines 52-55.
norm_target_mac ==
    IF Truthy(TARGET_MAC) THEN Some(NormalizeMac(Val(TARGET_MAC))) ELSE None

\* Lines 181-184: FALSE when the device is skipped for its address.
PassesMacFilter(address) ==
    IF Truthy(norm_target_mac)
    THEN NormalizeMac(address) = Val(norm_target_mac)
    ELSE TRUE

\* Lines 187-195: adv.manufacturer_data when there is an adv and the mapping
\* is not empty, else the device's metadata entry.  A mapping is the
\* sequence of its values in iteration order.
ManufacturerData(item) ==
    IF ~IsNone(item.adv) /\ Len(Val(item.adv).manufacturer_data) > 0
    THEN Val(item.adv).manufacturer_data
    ELSE Val(item.d).metadata

\* No payload is taken for an iBeacon payload.
NeverIBeacon(v) == FALSE

\* Lines 205-208: bytes(v[:2]) == b"\x02\x15".
IsIBeacon(v) == Slice(v, 0, 2) = <<2, 21>>

\* Lines 202-212: the first payload that is not an iBeacon payload, or None.
RECURSIVE SelectMfg(_)
SelectMfg(m) ==
    IF Len(m) = 0 THEN None
    ELSE IF IsIBeacon(Head(m)) THEN SelectMfg(Tail(m))
    ELSE Some(Head(m))

\* Only LoginError is handled.
OnlyLoginErrorCaught(kind) == kind = "LoginError"

\* Line 236: except Exception.
PublishErrorCaught(kind) == IsException(kind)

\* Line 233: the fields of data_str.
DataStr(d, reading) ==
    [mac |-> d.address, temp |-> reading.temperature,
     humidity |-> reading.humidity, pressure |-> reading.pressure]

\* Lines 158-225: what the loop body does with one item before publishing.
\* stage names where the item was dropped ("decoded": it was not); mfg is the
\* payload picked at lines 202-212, decoded the bytes handed to
\* parse_ruuvi_manufacturer_data at line 223.
Dropped(stage, mfg) ==
    [stage |-> stage, mfg |-> mfg, decoded |-> None, reading |-> None]

Extract(item) ==
    IF IsNone(item.d) THEN Dropped("no device", None)
    ELSE IF ~PassesMacFilter(Val(item.d).address) THEN Dropped("filtered", None)
    ELSE LET m == ManufacturerData(item)
         IN IF Len(m) = 0 THEN Dropped("no data", None)
            ELSE LET mfg == SelectMfg(m)
                 IN IF ~Truthy(mfg) THEN Dropped("no payload", mfg)
                    ELSE LET r == parse_ruuvi_manufacturer_data(Val(mfg))
                         IN [stage   |-> IF IsNone(r) THEN "undecoded"
                                                      ELSE "decoded",
                             mfg     |-> mfg,
                             decoded |-> mfg,
                             reading |-> r]

\* One log entry: the extraction, then the publish call (None: none was
\* made), what was printed for it and the exception it raised.
Entry(e, call, report, raised) ==
    [stage |-> e.stage, mfg |-> e.mfg, decoded |-> e.decoded,
     reading |-> e.reading, call |-> call, report |-> report,
     raised |-> raised]

\* Scan inputs.
MaxBatch == 2

MacAABB == <<"A", "A", ":", "B", "B">>
MacCCDD == <<"C", "C", ":", "D", "D">>
\* RUUVI_MAC: unset, empty, the first address written differently, and a
\* lone separator.
TargetSamples == {None, Some(<<>>), Some(<<"a", "a", "-", "b", "b">>),
                  Some(<<":">>)}

\* Tag 3, 22.00 C / 45 % / 1000.0 hPa under the first hypothesis.
GoodPayload == <<3, 8, 152, 45, 39, 16, 0, 0>>
\* The same fields under tag 9: not decoded.
BadPayload == <<9, 8, 152, 45, 39, 16, 0, 0>>
\* An iBeacon payload whose bytes the decoder would accept (tag 2).
IBeaconPayload == <<2, 21, 0, 45, 39, 16, 0, 0>>

MfgSamples == {<<IBeaconPayload>>, <<IBeaconPayload, GoodPayload>>,
               <<GoodPayload, IBeaconPayload>>, <<BadPayload, GoodPayload>>,
               <<<<>>, GoodPayload>>}

Device(address, metadata) == [address |-> address, metadata |-> metadata]
Adv(m) == [manufacturer_data |-> m]

\* An entry without a usable device (line 177), or a device with an
\* advertisement (lines 162-163) or without one (lines 172-174).  The metadata
\* is looked at only when the advertisement carries no manufacturer data.
Items ==
    {[d |-> None, adv |-> None]}
    \cup {[d |-> Some(Device(a, <<>>)), adv |-> Some(Adv(m))] :
             a \in {MacAABB, MacCCDD}, m \in MfgSamples}
    \cup {[d |-> Some(Device(MacAABB, meta)), adv |-> adv] :
             meta \in {<<>>, <<GoodPayload>>},
             adv \in {None, Some(Adv(<<>>))}}

Batches == UNION {[1..n -> Items] : n \in 0..MaxBatch}

\* The exchanges a publish of the scan can end in.
ResponseSamples ==
    {r \in Responses :
        \/ r = TransportError
        \/ /\ r.json /\ r.status_code = HTTP_OK
           /\ r.error_description = None /\ r.error = None
           /\ r.ok \in {None, Some(TRUE)}
        \/ /\ r.json /\ r.status_code = 401 /\ r.ok = None
           /\ r.error_description = Some(INVALID_DETAILS_MESSAGE)
           /\ r.error = Some("invalid_token")
        \/ /\ r.json /\ r.status_code = 400 /\ r.ok = None
           /\ r.error_description = None /\ r.error = Some("invalid_token")}

Init ==
    /\ TARGET_MAC \in TargetSamples
    /\ devices_raw = <<>>
    /\ pos = 0
    /\ found = 0
    /\ log = <<>>
    /\ pc = "scan"
    /\ DecoderIdle
    /\ ClientIdle

\* Lines 152-157: the scan returns its batch.
Discover ==
    /\ pc = "scan"
    /\ devices_raw' \in Batches
    /\ pos' = 1
    /\ pc' = "loop"
    /\ UNCHANGED <<TARGET_MAC, found, log, decoderVars, clientVars>>

\* Lines 158-237: one pass of the loop body.  An item that is dropped
\* `continue`s; a decoded one is published, and an exception of the publish is
\* printed (lines 236-237).  An exception nothing catches leaves
\* scan_and_publish.
HandleItem ==
    /\ pc = "loop"
    /\ pos <= Len(devices_raw)
    /\ LET item == devices_raw[pos]
           e == Extract(item)
       IN IF e.stage # "decoded"
          THEN /\ log' = Append(log, Entry(e, None, "none", "none"))
               /\ found' = found
               /\ pc' = IF /\ e.stage = "undecoded"
                           /\ ParseRaises(Val(e.decoded))
                        THEN "crashed" ELSE "loop"
          ELSE \E resp \in ResponseSamples :
                  LET res == publish_event(resp)
                      call == Some(DataStr(Val(item.d), Val(e.reading)))
                  IN /\ found' = found + 1
                     /\ IF res.kind = "return"
                        THEN /\ log' = Append(log,
                                    Entry(e, call, "Published", "none"))
                             /\ pc' = "loop"
                        ELSE IF PublishErrorCaught(res.kind)
                        THEN /\ log' = Append(log,
                                    Entry(e, call, "Failed", res.kind))
                             /\ pc' = "loop"
                        ELSE /\ log' = Append(log,
                                    Entry(e, call, "none", res.kind))
                             /\ pc' = "crashed"
    /\ pos' = pos + 1
    /\ UNCHANGED <<TARGET_MAC, devices_raw, decoderVars, clientVars>>

\* Lines 239-240: the loop is over.
Finish ==
    /\ pc = "loop"
    /\ pos > Len(devices_raw)
    /\ pc' = "done"
    /\ UNCHANGED <<TARGET_MAC, devices_raw, pos, found, log, decoderVars,
                   clientVars>>

Next == Discover \/ HandleItem \/ Finish

Spec == Init /\ [][Next]_vars

-----------------------------------------------------------------------------
(* Properties of the decoder, checked under SpecDecode.  They are stated   *)
(* on the payload bytes directly, in integer arithmetic, not through the   *)
(* operators the decoder is modelled with.                                 *)

\* Byte i (0-based) of a payload.
Byte(p, i) == p[i + 1]
U16BE(p, i) == Byte(p, i) * 256 + Byte(p, i + 1)
U16LE(p, i) == Byte(p, i + 1) * 256 + Byte(p, i)
Signed16(u) == IF u >= 32768 THEN u - 65536 ELSE u
Signed8(u) == IF u >= 128 THEN u - 256 ELSE u
FieldT(p, e) == Signed16(IF e = ">" THEN U16BE(p, 1) ELSE U16LE(p, 1))
FieldP(p, e) == IF e = ">" THEN U16BE(p, 4) ELSE U16LE(p, 4)

\* Hypothesis (e, ts, ps) puts all three values of payload p inside the
\* plausibility bounds: -40 <= T/ts <= 85, 0 <= H <= 100, 300 <= P/ps <= 1200.
HypInRange(p, e, ts, ps) ==
    /\ -40 * ts <= FieldT(p, e) /\ FieldT(p, e) <= 85 * ts
    /\ Byte(p, 3) <= 100
    /\ 300 * ps <= FieldP(p, e) /\ FieldP(p, e) <= 1200 * ps

\* The reading hypothesis (e, ts, ps) gives for payload p, in hundredths.
HypReading(p, e, ts, ps) ==
    [format      |-> Byte(p, 0),
     temperature |-> Round2(FieldT(p, e), ts),
     humidity    |-> 100 * Byte(p, 3),
     pressure    |-> Round2(FieldP(p, e), ps)]

HypSpace == {">", "<"} \X {100, 200, 1000} \X {10, 1}

\* The enumeration order of the hypotheses: big-endian before little-endian,
\* then /100 before /200 before /1000, then /10 before /1.
EndianRank(e) == IF e = ">" THEN 0 ELSE 1
TScaleRank(ts) == IF ts = 100 THEN 0 ELSE IF ts = 200 THEN 1 ELSE 2
PScaleRank(ps) == IF ps = 10 THEN 0 ELSE 1
Earlier(g, h) ==
    \/ EndianRank(g[1]) < EndianRank(h[1])
    \/ /\ g[1] = h[1]
       /\ \/ TScaleRank(g[2]) < TScaleRank(h[2])
          \/ g[2] = h[2] /\ PScaleRank(g[3]) < PScaleRank(h[3])

SomeHypInRange(p) == \E h \in HypSpace : HypInRange(p, h[1], h[2], h[3])

Returned == ~IsNone(parsed.reading)

\* C1 (as claimed): a payload with tag 5 and length >= 24 decodes to
\* temperature = s16be(bytes[1:3]) * 0.005, humidity = u16be(bytes[3:5]) *
\* 0.0025, pressure = (u16be(bytes[5:7]) + 50000) / 100, and a payload with
\* tag 3 and length >= 14 to humidity = byte[1] * 0.5, temperature = signed
\* byte[2] + byte[3] / 100, pressure = (u16be(bytes[4:6]) + 50000) / 100; the
\* values agree up to the rounding to 2 decimals.
C1_ExactDecoding ==
    dpc = "parsed" =>
        LET p == decoderPayload
        IN /\ (Len(p) >= 24 /\ Byte(p, 0) = 5) =>
                /\ Returned
                /\ LET r == Val(parsed.reading)
                   IN /\ 2 * r.temperature - Signed16(U16BE(p, 1)) \in -1..1
                      /\ 4 * r.humidity - U16BE(p, 3) \in -2..2
                      /\ r.pressure = U16BE(p, 5) + 50000
           /\ (Len(p) >= 14 /\ Byte(p, 0) = 3) =>
                /\ Returned
                /\ LET r == Val(parsed.reading)
                   IN /\ r.humidity = 50 * Byte(p, 1)
                      /\ r.temperature = 100 * Signed8(Byte(p, 2)) + Byte(p, 3)
                      /\ r.pressure = U16BE(p, 4) + 50000

C3_FirstPlausibleWins ==
    (dpc = "parsed" /\ Returned) =>
        LET p == decoderPayload
            r == Val(parsed.reading)
        IN /\ \E h \in HypSpace :
                /\ HypInRange(p, h[1], h[2], h[3])
                /\ r = HypReading(p, h[1], h[2], h[3])
                /\ \A g \in HypSpace :
                      Earlier(g, h) => ~HypInRange(p, g[1], g[2], g[3])
           /\ HypInRange(p, ">", 100, 10) => r = HypReading(p, ">", 100, 10)

\* A tie: the first hypothesis and a little-endian one are both plausible,
\* give different readings, and the first one is returned.
C3_Witness ==
    /\ dpc = "parsed"
    /\ Returned
    /\ HypInRange(decoderPayload, ">", 100, 10)
    /\ \E h \in HypSpace :
          /\ h[1] = "<"
          /\ HypInRange(decoderPayload, h[1], h[2], h[3])
          /\ HypReading(decoderPayload, h[1], h[2], h[3])
                # HypReading(decoderPayload, ">", 100, 10)
    /\ Val(parsed.reading) = HypReading(decoderPayload, ">", 100, 10)

\* C4: every returned reading has, after rounding to 2 decimals,
\* -40.0 <= temperature <= 85.0, 0.0 <= humidity <= 100.0 and
\* 300.0 <= pressure <= 1200.0 (values in hundredths).
C4_ReadingWithinBounds ==
    (dpc = "parsed" /\ Returned) =>
        LET r == Val(parsed.reading)
        IN /\ -4000 <= r.temperature /\ r.temperature <= 8500
           /\ 0 <= r.humidity /\ r.humidity <= 10000
           /\ 30000 <= r.pressure /\ r.pressure <= 120000

\* A reading on the edge of all three ranges.
C4_Witness ==
    /\ dpc = "parsed"
    /\ Returned
    /\ Val(parsed.reading).temperature = -4000
    /\ Val(parsed.reading).humidity = 10000
    /\ Val(parsed.reading).pressure = 120000

\* C5: a payload (after the company-id prefix is stripped) shorter than 8
\* bytes yields no reading, raises nothing, and no byte at an index >= the
\* payload length is accessed.
C5_ShortPayloadFails ==
    (dpc = "parsed" /\ Len(decoderPayload) < 8) =>
        /\ ~Returned
        /\ ~parsed.raised
        /\ \A i \in parsed.reads : i < Len(decoderPayload)

\* A 7-byte payload behind a stripped company id, with an accepted tag and a
\* plausible 6-byte window: only its length stops the decoding.
C5_Witness ==
    /\ dpc = "parsed"
    /\ Len(decoderPayload) = 7
    /\ Len(data) > 7
    /\ Byte(decoderPayload, 0) = 3
    /\ HypInRange(decoderPayload, ">", 100, 10)
    /\ ~Returned

\* The 0-based byte positions i at which bs holds 0x99 followed by 0x04.
CompanyIdPairs(bs) == {i \in 0..(Len(bs) - 2) : bs[i + 1] = 153 /\ bs[i + 2] = 4}

\* The payload of a byte-aligned strip: what follows the first such pair, or
\* the whole buffer when there is none.
AlignedPayload(bs) ==
    IF CompanyIdPairs(bs) = {} THEN bs
    ELSE LET i == CHOOSE i \in CompanyIdPairs(bs) :
                      \A k \in CompanyIdPairs(bs) : i <= k
         IN SubSeq(bs, i + 3, Len(bs))

\* The hex text of bs holds '9904' at an odd digit position: a byte ending in
\* the digit 9, then 0x90, then a byte starting with the digit 4.
StraddlingMatch(bs) ==
    \E i \in 1..(Len(bs) - 2) :
        bs[i] % 16 = 9 /\ bs[i + 1] = 144 /\ bs[i + 2] \div 16 = 4

\* C11 (as claimed): the company-id prefix is stripped only at a byte-aligned
\* occurrence of 0x99 0x04.  Without two adjacent bytes 0x99, 0x04 the whole
\* buffer is the payload and its byte 0 is the format tag; otherwise the
\* payload starts right after the first such pair.
C11_StripsOnlyAlignedCompanyId ==
    (dpc = "parsed" /\ Len(data) >= MinDataLen) =>
        /\ decoderPayload = AlignedPayload(data)
        /\ Len(AlignedPayload(data)) >= 8 => 0 \in parsed.reads
        /\ Returned =>
              Val(parsed.reading).format = Byte(AlignedPayload(data), 0)
        /\ (Len(AlignedPayload(data)) >= 8
              /\ Byte(AlignedPayload(data), 0) \in {2, 3, 4, 5, 6, 8}
              /\ SomeHypInRange(AlignedPayload(data))) => Returned

\* C11 holds on every buffer whose hex text has no '9904' at an odd digit
\* position.
C11_HoldsWithoutStraddlingMatch ==
    ~StraddlingMatch(data) => C11_StripsOnlyAlignedCompanyId

\* The raw 16-bit pressure values that /10 or /1 brings into 300..1200 hPa.
PressureWindow == (300..1200) \cup (3000..12000)

\* The payload went through the trial decoding of lines 102-136.
ReachedHeuristic ==
    /\ dpc = "parsed"
    /\ Len(data) >= MinDataLen
    /\ Len(decoderPayload) >= 8
    /\ Byte(decoderPayload, 0) \in {2, 3, 4, 5, 6, 8}

\* C12: for a payload of length >= 8 that reaches the heuristic search a
\* reading is returned iff byte[3] <= 100 and bytes[4:6], read big-endian or
\* little-endian, lie in [300, 1200] or [3000, 12000]; the temperature field
\* never rejects, since every signed 16-bit value over 1000 is in [-40, 85].
C12_ReturnedIffHumidityAndPressure ==
    ReachedHeuristic =>
        LET p == decoderPayload
        IN /\ Returned <=>
                 /\ Byte(p, 3) <= 100
                 /\ \E e \in {">", "<"} : FieldP(p, e) \in PressureWindow
           /\ \A e \in {">", "<"} :
                 -40 * 1000 <= FieldT(p, e) /\ FieldT(p, e) <= 85 * 1000

\* Big-endian temperature field 20005 is out of range at /100 and at /200,
\* the pressure field 12000 fits big-endian only, and the reading comes back
\* with the temperature taken at /1000.
C12_Witness ==
    /\ ReachedHeuristic
    /\ FieldT(decoderPayload, ">") = 20005
    /\ ~HypInRange(decoderPayload, ">", 100, 10)
    /\ ~HypInRange(decoderPayload, ">", 200, 10)
    /\ FieldP(decoderPayload, ">") = 12000
    /\ FieldP(decoderPayload, "<") \notin PressureWindow
    /\ Byte(decoderPayload, 3) = 100
    /\ Returned
    /\ Val(parsed.reading) = HypReading(decoderPayload, ">", 1000, 10)

-----------------------------------------------------------------------------
(* Properties of the cloud client, checked under SpecPublish.              *)

\* The exchange did not end in a success status: no response at all, a body
\* that is not JSON, or a status other than 200.
FailedExchange(r) ==
    r.transport = "error" \/ ~r.json \/ r.status_code # 200

\* A failed publish whose response carries error_description equal to the
\* fixed invalid-credentials message.
InvalidCredentials(r) ==
    /\ r.transport = "ok" /\ r.json /\ r.status_code # 200
    /\ r.error_description = Some("User credentials are invalid")

C10_SuccessOnlyWithAck ==
    (ppc = "done" /\ outcome.kind = "return") => ~IsNone(Val(response).ok)

-----------------------------------------------------------------------------
(* Properties of the scan batch, checked under Spec.                       *)

\* The payload begins with the bytes 0x02 0x15.
StartsWith0215(v) == Len(v) >= 2 /\ v[1] = 2 /\ v[2] = 21

\* The first payload of mapping m that does not begin with 0x02 0x15.
FirstNon0215(m) ==
    LET ks == {k \in 1..Len(m) : ~StartsWith0215(m[k])}
    IN IF ks = {} THEN None
       ELSE Some(m[CHOOSE k \in ks : \A j \in ks : k <= j])

\* The extractor was run on the item of this log entry.
ExtractorRan(en) == en.stage \in {"no payload", "undecoded", "decoded"}

\* C6: the payload the extractor chooses is the first manufacturer payload,
\* in iteration order, whose leading two bytes are not (0x02, 0x15); a payload
\* beginning with 0x02 0x15 is never selected and never handed to the decoder.
C6_ExtractorSkipsIBeacon ==
    \A i \in 1..Len(log) :
        /\ ExtractorRan(log[i]) =>
              log[i].mfg = FirstNon0215(ManufacturerData(devices_raw[i]))
        /\ ~IsNone(log[i].mfg) => ~StartsWith0215(Val(log[i].mfg))
        /\ ~IsNone(log[i].decoded) => ~StartsWith0215(Val(log[i].decoded))

\* A record whose first payload is an iBeacon payload the decoder would
\* accept and whose second is not one: the second was decoded and published.
C6_Witness ==
    \E i \in 1..Len(log) :
        LET m == ManufacturerData(devices_raw[i])
        IN /\ ExtractorRan(log[i])
           /\ Len(m) = 2
           /\ StartsWith0215(m[1])
           /\ ~IsNone(parse_ruuvi_manufacturer_data(m[1]))
           /\ log[i].decoded = Some(m[2])
           /\ ~IsNone(log[i].call)

\* The record's address differs, once normalized, from a set allow-list MAC.
AddressMismatch(item) ==
    /\ ~IsNone(item.d)
    /\ Truthy(TARGET_MAC)
    /\ NormalizeMac(Val(item.d).address) # NormalizeMac(Val(TARGET_MAC))

\* C7 (as claimed): a publish call is made for an advertisement only if (i) no
\* allow-list MAC is set or the record's normalized address equals the
\* normalized allow-list MAC, (ii) the record carries a selectable
\* manufacturer payload and (iii) that payload decoded to a reading; a record
\* with a non-matching address, or with no manufacturer payload, produces no
\* reading and no publish call.
C7_PublishOnlyIfAllowedAndDecoded ==
    \A i \in 1..Len(log) :
        /\ ~IsNone(log[i].call) =>
              /\ ~AddressMismatch(devices_raw[i])
              /\ ~IsNone(log[i].mfg)
              /\ ~IsNone(log[i].reading)
        /\ (\/ AddressMismatch(devices_raw[i])
            \/ IsNone(devices_raw[i].d)
            \/ Len(ManufacturerData(devices_raw[i])) = 0)
              => IsNone(log[i].reading) /\ IsNone(log[i].call)

\* C7 holds of every allow-list MAC that has an alphanumeric character.
C7_HoldsForAlnumTarget ==
    (IsNone(TARGET_MAC) \/ Len(NormalizeMac(Val(TARGET_MAC))) > 0
        \/ Len(Val(TARGET_MAC)) = 0)
    => C7_PublishOnlyIfAllowedAndDecoded

\* Handling item i failed: its payload did not decode or its publish raised.
FailedAt(i) == log[i].stage = "undecoded" \/ log[i].report = "Failed"

\* C8: a failure while handling advertisement i (a publish that raises, a
\* payload that does not decode) never stops the batch: the loop is not left
\* by an exception, and once it is over every advertisement has been
\* extracted and decoded and, if it decoded, a publish call was made for it.
C8_FailureDoesNotStopBatch ==
    /\ pc # "crashed"
    /\ (\E i \in 1..Len(log) : FailedAt(i)) => pc \in {"loop", "done"}
    /\ pc = "done" =>
          /\ Len(log) = Len(devices_raw)
          /\ \A j \in 1..Len(devices_raw) :
                /\ log[j].stage = Extract(devices_raw[j]).stage
                /\ log[j].stage = "decoded" =>
                      /\ ~IsNone(log[j].call)
                      /\ log[j].report \in {"Published", "Failed"}

\* A batch in which a publish raised an ordinary exception (not LoginError)
\* and a later advertisement was published all the same.
C8_Witness ==
    /\ pc = "done"
    /\ \E i, j \in 1..Len(log) :
          /\ i < j
          /\ log[i].report = "Failed" /\ log[i].raised = "Exception"
          /\ log[j].report = "Published"

=============================================================================
